---- MODULE Spec2Model ----
(***************************************************************************)
(* Model of resume-generator/resume_template.js: the emphasis annotator    *)
(* splitBulletWithBolds, the date formatter formatDate, the section        *)
(* builders and the command-line entry point that renders a payload to a   *)
(* .docx file.                                                             *)
(*                                                                         *)
(* JavaScript strings are modelled as sequences of UTF-16 code units, each *)
(* code unit a one-element TLA+ string.  I_DOT stands for U+0130 (capital  *)
(* I with dot above) and DOT_ABOVE for U+0307 (combining dot above).       *)
(***************************************************************************)
EXTENDS Integers, Sequences, FiniteSets, TLC

VARIABLES
  \* splitBulletWithBolds(text, matchedKeywords, maxBolds)
  text, matchedKeywords, maxBoldsArg,
  bpc, sortedTerms, termIdx, midpoint, segments, boldCount, runs

boldVars == <<text, matchedKeywords, maxBoldsArg,
              bpc, sortedTerms, termIdx, midpoint, segments, boldCount, runs>>

\* formatDate(dateStr) as buildExperience calls it for one job
VARIABLES start_date, end_date, dpc, startFormatted, endFormatted, dateRange

dateVars == <<start_date, end_date, dpc, startFormatted, endFormatted, dateRange>>

\* the command line: node resume_template.js [--type T] <input> <output>
VARIABLES args, docType, inputFile, outputFile, cpc, data, doc, buffer,
          outFile, err, exitCode, stderr, stdout

cliVars == <<args, docType, inputFile, outputFile, cpc, data, doc, buffer,
             outFile, err, exitCode, stderr, stdout>>

\* buildSkills(skills)
VARIABLES skills, spc, skillIdx, byCategory, skillLines

skillVars == <<skills, spc, skillIdx, byCategory, skillLines>>

\* the tables work_experience, projects and bullets of schema.sql
VARIABLES foreign_keys, work_experience, projects_table, bullets, sqlite_sequence

storeVars == <<foreign_keys, work_experience, projects_table, bullets, sqlite_sequence>>

vars == <<boldVars, dateVars, cliVars, skillVars, storeVars>>

nonBoldVars == <<dateVars, cliVars, skillVars, storeVars>>
nonDateVars == <<boldVars, cliVars, skillVars, storeVars>>
nonCliVars == <<boldVars, dateVars, skillVars, storeVars>>
nonSkillVars == <<boldVars, dateVars, cliVars, storeVars>>
nonStoreVars == <<boldVars, dateVars, cliVars, skillVars>>

(***************************************************************************)
(* A date of the payload is null or a string.  The Idle predicates give    *)
(* the variables of a function their value while it is not running.        *)
(***************************************************************************)
JsNull == [null |-> TRUE, chars |-> <<>>]
JsString(s) == [null |-> FALSE, chars |-> s]

BoldIdle ==
  /\ text = <<>>
  /\ matchedKeywords = <<>>
  /\ maxBoldsArg = [given |-> FALSE, val |-> 0]
  /\ bpc = "idle"
  /\ sortedTerms = <<>>
  /\ termIdx = 0
  /\ midpoint = 0
  /\ segments = <<>>
  /\ boldCount = 0
  /\ runs = <<>>

DateIdle ==
  /\ start_date = JsNull
  /\ end_date = JsNull
  /\ dpc = "idle"
  /\ startFormatted = <<>>
  /\ endFormatted = <<>>
  /\ dateRange = <<>>

\* the value of a missing argument or of a variable not yet assigned
Undefined == "undefined"

NoData == [kind |-> "none", is_cv |-> FALSE, summary |-> JsNull, projects |-> <<>>]
NoDoc == [kind |-> "none", children |-> <<>>]

\* the output path holds no file, the file that was there before the run,
\* a file that is not a whole document, or a whole document
NoFile == [state |-> "absent", content |-> NoDoc]
OldFile == [state |-> "old", content |-> NoDoc]

CliIdle ==
  /\ args = <<>>
  /\ docType = Undefined
  /\ inputFile = Undefined
  /\ outputFile = Undefined
  /\ cpc = "idle"
  /\ data = NoData
  /\ doc = NoDoc
  /\ buffer = NoDoc
  /\ outFile = NoFile
  /\ err = "none"
  /\ exitCode = 0
  /\ stderr = <<>>
  /\ stdout = <<>>

\* a JavaScript object with no own property: its keys in creation order
EmptyObject == [keys |-> <<>>, vals |-> <<>>]

SkillsIdle ==
  /\ skills = <<>>
  /\ spc = "idle"
  /\ skillIdx = 0
  /\ byCategory = EmptyObject
  /\ skillLines = <<>>

StoreIdle ==
  /\ foreign_keys = FALSE
  /\ work_experience = {}
  /\ projects_table = {}
  /\ bullets = {}
  /\ sqlite_sequence = [work_experience |-> 0, projects |-> 0, bullets |-> 0]

(***************************************************************************)
(* Bounds of the checked inputs.                                           *)
(***************************************************************************)
MaxWords == 3
MaxLeadWords == 1
MaxBoldsArg == 2
MaxParts == 3
MaxArgs == 4
MaxProjects == 5
MaxSkills == 3
MaxRowId == 2

(***************************************************************************)
(* Program constants (resume_template.js lines 27-44).                     *)
(***************************************************************************)
PRIORITY_BOLD ==
  << <<"A", "z", "u", "r", "e", " ", "B", "l", "o", "b", " ", "S", "t", "o", "r", "a", "g", "e">>,
     <<"A", "z", "u", "r", "e">>,
     <<"P", "o", "w", "e", "r", " ", "B", "I">>,
     <<"P", "o", "w", "e", "r", " ", "Q", "u", "e", "r", "y">>,
     <<"P", "o", "w", "e", "r", " ", "A", "u", "t", "o", "m", "a", "t", "e">>,
     <<"P", "y", "t", "h", "o", "n">>,
     <<"S", "Q", "L">>,
     <<"D", "A", "X">>,
     <<"M", "y", "S", "Q", "L">>,
     <<"E", "T", "L">>,
     <<"F", "L", "A", "I", "R">>,
     <<"F", "O", "C", "U", "S">>,
     <<"H", "M", "G", "P">>,
     <<"F", "E", "M", "A">>,
     <<"A", "R", "I", "M", "A">>,
     <<"P", "r", "o", "p", "h", "e", "t">>,
     <<"F", "l", "a", "s", "k">>,
     <<"M", "o", "n", "g", "o", "D", "B">>,
     <<"S", "e", "l", "e", "n", "i", "u", "m">>,
     <<"S", "c", "i", "k", "i", "t", "-", "l", "e", "a", "r", "n">>,
     <<"L", "a", "n", "g", "C", "h", "a", "i", "n">>,
     <<"S", "n", "o", "w", "f", "l", "a", "k", "e">>,
     <<"P", "o", "s", "t", "g", "r", "e", "S", "Q", "L">>,
     <<"S", "Q", "L", " ", "S", "e", "r", "v", "e", "r">>,
     <<"S", "p", "a", "r", "k">>,
     <<"A", "i", "r", "f", "l", "o", "w">>,
     <<"D", "a", "t", "a", "b", "r", "i", "c", "k", "s">>,
     <<"G", "C", "P">>,
     <<"A", "W", "S">>,
     <<"D", "o", "c", "k", "e", "r">>,
     <<"R", "E", "S", "T", " ", "A", "P", "I">>,
     <<"F", "a", "s", "t", "A", "P", "I">> >>
NEVER_BOLD ==
  { <<"S", "H", "A", "-", "2", "5", "6">>,
     <<"K", "P", "I", "s">>,
     <<"S", "L", "A">>,
     <<"C", "S", "R", "F">>,
     <<".", "N", "E", "T">>,
     <<"V", "B", "A">>,
     <<"G", "i", "t">>,
     <<"G", "i", "t", "H", "u", "b">>,
     <<"S", "h", "a", "r", "e", "P", "o", "i", "n", "t">>,
     <<"O", "n", "e", "D", "r", "i", "v", "e">>,
     <<"W", "i", "n", "d", "o", "w", "s", " ", "T", "a", "s", "k", " ", "S", "c", "h", "e", "d", "u", "l", "e", "r">>,
     <<"E", "x", "c", "e", "l">>,
     <<"J", "S", "O", "N">>,
     <<"C", "S", "V">>,
     <<"X", "M", "L">> }
SKIP_LEADERSHIP_STARTS ==
  << <<"C", "o", "l", "l", "a", "b", "o", "r", "a", "t", "e", "d">>,
     <<"O", "n", "b", "o", "a", "r", "d", "e", "d">>,
     <<"T", "r", "a", "i", "n", "e", "d">>,
     <<"P", "r", "e", "s", "e", "n", "t", "e", "d">>,
     <<"A", "u", "t", "h", "o", "r", "e", "d">>,
     <<"L", "e", "d", " ", "a">>,
     <<"W", "o", "r", "k", "e", "d", " ", "w", "i", "t", "h">>,
     <<"P", "a", "r", "t", "n", "e", "r", "e", "d">> >>
DefaultMaxBolds == 2

(***************************************************************************)
(* String primitives of the JavaScript runtime.                            *)
(***************************************************************************)
I_DOT == "I_DOT"
DOT_ABOVE == "DOT_ABOVE"

UpperCase == <<"A", "B", "C", "D", "E", "F", "G", "H", "I", "J", "K", "L", "M",
               "N", "O", "P", "Q", "R", "S", "T", "U", "V", "W", "X", "Y", "Z">>
LowerCase == <<"a", "b", "c", "d", "e", "f", "g", "h", "i", "j", "k", "l", "m",
               "n", "o", "p", "q", "r", "s", "t", "u", "v", "w", "x", "y", "z">>
Digits == <<"0", "1", "2", "3", "4", "5", "6", "7", "8", "9">>

Range(s) == {s[i] : i \in 1..Len(s)}

Alphabet ==
  Range(UpperCase) \cup Range(LowerCase) \cup Range(Digits)
    \cup {" ", "-", ".", "+", I_DOT, DOT_ABOVE}

WhiteSpace == {" "}

\* String.prototype.toLowerCase on one code unit: the Unicode default case
\* conversion.  U+0130 is the one code unit whose lower case is two code units.
LowerTable ==
  [c \in Alphabet |->
     IF c = I_DOT THEN <<"i", DOT_ABOVE>>
     ELSE IF \E i \in 1..26 : UpperCase[i] = c
          THEN <<LowerCase[CHOOSE i \in 1..26 : UpperCase[i] = c]>>
          ELSE <<c>>]

RECURSIVE toLowerCase(_)
toLowerCase(s) ==
  IF s = <<>> THEN <<>> ELSE LowerTable[Head(s)] \o toLowerCase(Tail(s))

\* String.prototype.indexOf: the least 0-based index where sub occurs, or -1.
indexOf(s, sub) ==
  LET hits == {i \in 0..(Len(s) - Len(sub)) :
                 \A j \in 1..Len(sub) : s[i + j] = sub[j]}
  IN IF hits = {} THEN -1 ELSE CHOOSE i \in hits : \A k \in hits : i <= k

includes(s, sub) == indexOf(s, sub) # -1

Min(a, b) == IF a <= b THEN a ELSE b

\* String.prototype.slice(from, to) for non-negative arguments: both ends
\* are clamped to the length of the string.
slice(s, from, to) ==
  LET f == Min(from, Len(s))
      t == Min(to, Len(s))
  IN IF f >= t THEN <<>> ELSE SubSeq(s, f + 1, t)

sliceFrom(s, from) == slice(s, from, Len(s))

startsWith(s, prefix) ==
  /\ Len(prefix) <= Len(s)
  /\ \A j \in 1..Len(prefix) : s[j] = prefix[j]

RECURSIVE trimStart(_)
trimStart(s) ==
  IF s # <<>> /\ Head(s) \in WhiteSpace THEN trimStart(Tail(s)) ELSE s

RECURSIVE trimEnd(_)
trimEnd(s) ==
  IF s # <<>> /\ s[Len(s)] \in WhiteSpace
  THEN trimEnd(SubSeq(s, 1, Len(s) - 1)) ELSE s

trim(s) == trimEnd(trimStart(s))

RECURSIVE Concat(_)
Concat(ss) == IF ss = <<>> THEN <<>> ELSE Head(ss) \o Concat(Tail(ss))

(***************************************************************************)
(* Inputs of splitBulletWithBolds that are checked: bullet texts made of   *)
(* up to MaxWords words, and the same behind a soft lead-in phrase.        *)
(***************************************************************************)
Filler == <<" ", "f", "o", "r", " ", "n", "i", "g", "h", "t", "l", "y", " ",
            "l", "o", "a", "d", "s">>

Words ==
  { <<"A", "z", "u", "r", "e", " ", "B", "l", "o", "b", " ", "S", "t", "o", "r", "a", "g", "e">>,
    <<"a", "z", "u", "r", "e">>,
    <<"M", "y", "S", "Q", "L">>,
    <<"S", "Q", "L">>,
    <<I_DOT>>,
    Filler }

RECURSIVE Bodies(_)
Bodies(n) ==
  IF n = 0 THEN {<<>>}
  ELSE LET prev == Bodies(n - 1)
       IN prev \cup {w \o b : w \in Words, b \in prev}

TextInputs ==
  Bodies(MaxWords)
    \cup {ws \o p \o b : ws \in {<<>>, <<" ">>},
                         p \in Range(SKIP_LEADERSHIP_STARTS),
                         b \in Bodies(MaxLeadWords)}

KeywordInputs ==
  { <<>>,
    << <<"s", "q", "l">> >>,
    << <<"A", "z", "u", "r", "e", " ", "B", "l", "o", "b">>, <<"x", "y", "z">> >> }

\* maxBolds is an optional parameter: given with a value, or left out.
MaxBoldsInputs ==
  {[given |-> FALSE, val |-> 0]}
    \cup {[given |-> TRUE, val |-> n] : n \in 0..MaxBoldsArg}

(***************************************************************************)
(* splitBulletWithBolds (lines 46-101).                                    *)
(***************************************************************************)
\* maxBolds = 2 (the default parameter value of line 46)
maxBolds == IF maxBoldsArg.given THEN maxBoldsArg.val ELSE DefaultMaxBolds

\* a prefix test that lower-cases the prefix only
isLeadershipStartLowered(t) ==
  \E i \in 1..Len(SKIP_LEADERSHIP_STARTS) :
     startsWith(trim(t), toLowerCase(SKIP_LEADERSHIP_STARTS[i]))

\* lines 49-54: textTrimmed.startsWith(prefix) for some prefix
isLeadershipStart(t) ==
  \E i \in 1..Len(SKIP_LEADERSHIP_STARTS) :
     startsWith(trim(t), SKIP_LEADERSHIP_STARTS[i])

\* lines 59-62: matchedKeywords.some(kw => kw includes t or t includes kw)
keywordOverlap(t, kws) ==
  \E i \in 1..Len(kws) :
     \/ includes(toLowerCase(kws[i]), toLowerCase(t))
     \/ includes(toLowerCase(t), toLowerCase(kws[i]))

\* lines 56-63: PRIORITY_BOLD.filter(...)
termsToCheck(kws) ==
  SelectSeq(PRIORITY_BOLD,
            LAMBDA t : t \notin NEVER_BOLD /\ (Len(kws) = 0 \/ keywordOverlap(t, kws)))

\* line 64: Array.prototype.sort is stable; the comparator orders by
\* descending length.
insertByLength(sorted, t) ==
  LET k == Cardinality({i \in 1..Len(sorted) : Len(sorted[i]) >= Len(t)})
  IN SubSeq(sorted, 1, k) \o <<t>> \o SubSeq(sorted, k + 1, Len(sorted))

RECURSIVE sortByLengthDesc(_)
sortByLengthDesc(ts) ==
  IF ts = <<>> THEN <<>>
  ELSE insertByLength(sortByLengthDesc(SubSeq(ts, 1, Len(ts) - 1)), ts[Len(ts)])

\* line 66
midpointOf(t) == Len(t) \div 2

\* a loop guard that lets one more term through
loopBreakLate(count, limit) == count > limit

\* line 71: if (boldCount >= maxBolds) break
loopBreak(count, limit) == count >= limit

\* an index that forgets the offset of the segment in the text
globalIndexLocal(seg, idx) == idx

\* line 78: the index of the match in the whole text
globalIndex(seg, idx) == seg.startOffset + idx

\* line 79: if (globalIdx >= midpoint) keep the segment
pastMidpoint(globalIdx, mid) == globalIdx >= mid

\* a cut that loses the first character after the match
splitSegmentSkipping(seg, idx, term) ==
  LET before == slice(seg.text, 0, idx)
      match == slice(seg.text, idx, idx + Len(term))
      after == sliceFrom(seg.text, idx + Len(term) + 1)
      so == seg.startOffset
  IN (IF before # <<>>
      THEN <<[text |-> before, bold |-> FALSE, startOffset |-> so]>> ELSE <<>>)
     \o <<[text |-> match, bold |-> TRUE, startOffset |-> so + idx]>>
     \o (IF after # <<>>
         THEN <<[text |-> after, bold |-> FALSE, startOffset |-> so + idx + Len(term) + 1]>>
         ELSE <<>>)

\* lines 80-86: the segment cut into before / match / after
splitSegment(seg, idx, term) ==
  LET before == slice(seg.text, 0, idx)
      match == slice(seg.text, idx, idx + Len(term))
      after == sliceFrom(seg.text, idx + Len(term))
      so == seg.startOffset
  IN (IF before # <<>>
      THEN <<[text |-> before, bold |-> FALSE, startOffset |-> so]>> ELSE <<>>)
     \o <<[text |-> match, bold |-> TRUE, startOffset |-> so + idx]>>
     \o (IF after # <<>>
         THEN <<[text |-> after, bold |-> FALSE, startOffset |-> so + idx + Len(term)]>>
         ELSE <<>>)

\* a test that lets a later term search a bold segment again
keepSegmentIfDone(seg, didBold) == didBold

\* line 75: if (seg.bold || didBold) the segment is copied as it is
keepSegment(seg, didBold) == seg.bold \/ didBold

\* lines 74-89: the loop over the segments for one term
RECURSIVE segmentLoop(_, _, _, _, _, _)
segmentLoop(segs, k, term, mid, newSegments, didBold) ==
  IF k > Len(segs) THEN [newSegments |-> newSegments, didBold |-> didBold]
  ELSE
    LET seg == segs[k]
        idx == indexOf(toLowerCase(seg.text), toLowerCase(term))
        globalIdx == globalIndex(seg, idx)
    IN IF keepSegment(seg, didBold)
         THEN segmentLoop(segs, k + 1, term, mid, Append(newSegments, seg), didBold)
       ELSE IF idx = -1
         THEN segmentLoop(segs, k + 1, term, mid, Append(newSegments, seg), didBold)
       ELSE IF pastMidpoint(globalIdx, mid)
         THEN segmentLoop(segs, k + 1, term, mid, Append(newSegments, seg), didBold)
       ELSE segmentLoop(segs, k + 1, term, mid,
                        newSegments \o splitSegment(seg, idx, term), TRUE)

\* lines 93-100: one TextRun per segment
toRuns(segs) == [i \in 1..Len(segs) |-> [text |-> segs[i].text, bold |-> segs[i].bold]]

BoldInit ==
  /\ text \in TextInputs
  /\ matchedKeywords \in KeywordInputs
  /\ maxBoldsArg \in MaxBoldsInputs
  /\ bpc = "call"
  /\ sortedTerms = <<>>
  /\ termIdx = 0
  /\ midpoint = 0
  /\ segments = <<>>
  /\ boldCount = 0
  /\ runs = <<>>
  /\ DateIdle
  /\ CliIdle
  /\ SkillsIdle
  /\ StoreIdle

\* line 47: if (!text) return one empty run
SplitEmptyText ==
  /\ bpc = "call"
  /\ text = <<>>
  /\ runs' = <<[text |-> <<>>, bold |-> FALSE]>>
  /\ bpc' = "done"
  /\ UNCHANGED <<text, matchedKeywords, maxBoldsArg, sortedTerms, termIdx,
                 midpoint, segments, boldCount,
                 nonBoldVars>>

\* lines 49-54: a soft lead-in returns the text as one plain run
SplitLeadership ==
  /\ bpc = "call"
  /\ text # <<>>
  /\ isLeadershipStart(text)
  /\ runs' = <<[text |-> text, bold |-> FALSE]>>
  /\ bpc' = "done"
  /\ UNCHANGED <<text, matchedKeywords, maxBoldsArg, sortedTerms, termIdx,
                 midpoint, segments, boldCount,
                 nonBoldVars>>

\* lines 56-68: the candidate terms, the midpoint, the first segment
SplitBegin ==
  /\ bpc = "call"
  /\ text # <<>>
  /\ ~isLeadershipStart(text)
  /\ sortedTerms' = sortByLengthDesc(termsToCheck(matchedKeywords))
  /\ midpoint' = midpointOf(text)
  /\ segments' = <<[text |-> text, bold |-> FALSE, startOffset |-> 0]>>
  /\ boldCount' = 0
  /\ termIdx' = 1
  /\ bpc' = "loop"
  /\ UNCHANGED <<text, matchedKeywords, maxBoldsArg, runs,
                 nonBoldVars>>

\* lines 70-91: one iteration of the loop over sortedTerms
SplitTerm ==
  /\ bpc = "loop"
  /\ termIdx <= Len(sortedTerms)
  /\ ~loopBreak(boldCount, maxBolds)
  /\ LET r == segmentLoop(segments, 1, sortedTerms[termIdx], midpoint, <<>>, FALSE)
     IN /\ segments' = IF r.didBold THEN r.newSegments ELSE segments
        /\ boldCount' = IF r.didBold THEN boldCount + 1 ELSE boldCount
  /\ termIdx' = termIdx + 1
  /\ UNCHANGED <<text, matchedKeywords, maxBoldsArg, bpc, sortedTerms, midpoint, runs,
                 nonBoldVars>>

\* lines 70-71 and 93-100: the loop ends (terms exhausted or break) and the
\* segments are returned as runs
SplitReturn ==
  /\ bpc = "loop"
  /\ (termIdx > Len(sortedTerms) \/ loopBreak(boldCount, maxBolds))
  /\ runs' = toRuns(segments)
  /\ bpc' = "done"
  /\ UNCHANGED <<text, matchedKeywords, maxBoldsArg, sortedTerms, termIdx,
                 midpoint, segments, boldCount,
                 nonBoldVars>>

BoldNext ==
  \/ SplitEmptyText
  \/ SplitLeadership
  \/ SplitBegin
  \/ SplitTerm
  \/ SplitReturn

SpecBold == BoldInit /\ [][BoldNext]_vars

(***************************************************************************)
(* Properties of splitBulletWithBolds.                                     *)
(***************************************************************************)
RunTexts(rs) == [i \in 1..Len(rs) |-> rs[i].text]

BoldIndices(rs) == {i \in 1..Len(rs) : rs[i].bold}

\* the offset in the concatenated output at which run i starts
RunOffset(rs, i) == Len(Concat(RunTexts(SubSeq(rs, 1, i - 1))))

\* C1: the returned runs, concatenated in order, are the original text
\* (the segments of every loop iteration already are).
C1_RunsReconstructText ==
  /\ bpc = "done" => Concat(RunTexts(runs)) = text
  /\ bpc = "loop" => Concat(RunTexts(segments)) = text

C1_Witness ==
  /\ bpc = "done"
  /\ Len(runs) >= 4
  /\ Cardinality(BoldIndices(runs)) = 2
  /\ \E i \in 1..Len(text) : text[i] \in Range(LowerCase)

\* a term of the candidate list occurs, ignoring case, in the string s
HasCandidate(s, terms) ==
  \E k \in 1..Len(terms) : includes(toLowerCase(s), toLowerCase(terms[k]))

\* C2: at most maxBolds runs are bold (2 when maxBolds is left out), and in
\* every iteration of the term loop boldCount is the number of bold segments.
C2_BoldCountBounded ==
  /\ bpc = "done" => Cardinality(BoldIndices(runs)) <= maxBolds
  /\ bpc = "loop" => /\ boldCount = Cardinality(BoldIndices(segments))
                     /\ boldCount <= maxBolds

\* the loop broke at the limit while a later candidate still occurs in the text
C2_Witness ==
  /\ bpc = "done"
  /\ maxBolds >= 1
  /\ Cardinality(BoldIndices(runs)) = maxBolds
  /\ termIdx <= Len(sortedTerms)
  /\ \E j \in 1..Len(runs) :
        ~runs[j].bold /\ HasCandidate(runs[j].text, SubSeq(sortedTerms, termIdx, Len(sortedTerms)))

\* C3: no bold run starts at an offset of the text at or after
\* floor(text.length / 2), in the output and in every loop iteration.
C3_NoBoldFromMidpoint ==
  /\ bpc = "done" =>
       \A i \in BoldIndices(runs) : RunOffset(runs, i) < Len(text) \div 2
  /\ bpc = "loop" =>
       \A i \in BoldIndices(segments) : RunOffset(segments, i) < Len(text) \div 2

\* a term was bolded, the limit was not reached, and a plain run after the
\* bold one still holds a candidate: the one the midpoint rule refused
C3_Witness ==
  /\ bpc = "done"
  /\ Cardinality(BoldIndices(runs)) < maxBolds
  /\ \E i \in BoldIndices(runs) :
       \E j \in (i + 1)..Len(runs) :
          /\ ~runs[j].bold
          /\ HasCandidate(runs[j].text, sortedTerms)
          /\ RunOffset(runs, j) >= Len(text) \div 2

BeginsWithLeadIn(t) ==
  \E i \in 1..Len(SKIP_LEADERSHIP_STARTS) : startsWith(t, SKIP_LEADERSHIP_STARTS[i])

\* C4: a text that begins with a soft lead-in phrase comes back as exactly
\* one plain run holding the whole text, whatever the keywords and maxBolds.
C4_LeadInOnePlainRun ==
  (bpc = "done" /\ BeginsWithLeadIn(text)) =>
     runs = <<[text |-> text, bold |-> FALSE]>>

\* a lead-in text with a candidate term in its first half, keywords given
\* and bolding allowed
C4_Witness ==
  /\ bpc = "done"
  /\ BeginsWithLeadIn(text)
  /\ Len(matchedKeywords) > 0
  /\ maxBolds >= 1
  /\ \E k \in 1..Len(PRIORITY_BOLD) :
       LET at == indexOf(toLowerCase(text), toLowerCase(PRIORITY_BOLD[k]))
       IN /\ at # -1 /\ at < Len(text) \div 2
          /\ keywordOverlap(PRIORITY_BOLD[k], matchedKeywords)

\* C5: every bold run is, ignoring case, a priority term that is not in the
\* denylist and, when keywords are given, overlaps one of them.
C5_BoldRunsAreCandidates ==
  bpc = "done" =>
    \A i \in BoldIndices(runs) :
       \E k \in 1..Len(PRIORITY_BOLD) :
          LET t == PRIORITY_BOLD[k]
          IN /\ t \notin NEVER_BOLD
             /\ toLowerCase(runs[i].text) = toLowerCase(t)
             /\ (Len(matchedKeywords) > 0 => keywordOverlap(t, matchedKeywords))

\* the same statement over the texts whose lower case has their length
C5_CandidatesWhenLengthKept ==
  (bpc = "done" /\ Len(toLowerCase(text)) = Len(text)) =>
    \A i \in BoldIndices(runs) :
       \E k \in 1..Len(PRIORITY_BOLD) :
          LET t == PRIORITY_BOLD[k]
          IN /\ t \notin NEVER_BOLD
             /\ toLowerCase(runs[i].text) = toLowerCase(t)
             /\ (Len(matchedKeywords) > 0 => keywordOverlap(t, matchedKeywords))

AzureBlobStorage == PRIORITY_BOLD[1]
Azure == PRIORITY_BOLD[2]

\* the offsets of the text at which the term occurs, ignoring case
Occurrences(t, term) ==
  {p \in 0..(Len(t) - Len(term)) :
     toLowerCase(SubSeq(t, p + 1, p + Len(term))) = toLowerCase(term)}

\* the occurrence at p lies inside a bold run that is longer than the term
InsideLongerBold(rs, p, term) ==
  \E i \in BoldIndices(rs) :
     /\ Len(rs[i].text) > Len(term)
     /\ RunOffset(rs, i) <= p
     /\ p + Len(term) <= RunOffset(rs, i) + Len(rs[i].text)

C13_Step ==
  /\ \A i, j \in 1..Len(sortedTerms') :
        i < j => Len(sortedTerms'[i]) >= Len(sortedTerms'[j])
  /\ (bpc = "loop" /\ bpc' = "loop") =>
        /\ termIdx' = termIdx + 1
        /\ \A i \in BoldIndices(segments) :
              \E j \in BoldIndices(segments') :
                 /\ segments'[j] = segments[i]
                 /\ RunOffset(segments', j) = RunOffset(segments, i)
  /\ (bpc = "loop" /\ bpc' = "done") =>
        /\ \A i \in BoldIndices(segments) :
              /\ runs'[i] = [text |-> segments[i].text, bold |-> TRUE]
              /\ RunOffset(runs', i) = RunOffset(segments, i)
        /\ \A i \in BoldIndices(runs') :
              runs'[i].text
                = slice(text, RunOffset(runs', i), RunOffset(runs', i) + Len(runs'[i].text))
        /\ \A k \in 1..Len(sortedTerms) :
              LET term == sortedTerms[k]
                  occ == Occurrences(text, term)
              IN (occ # {} /\ \A p \in occ : InsideLongerBold(runs', p, term))
                   => ~\E i \in BoldIndices(runs') :
                          toLowerCase(runs'[i].text) = toLowerCase(term)

\* C13: terms are taken in descending length; a bold segment keeps its text
\* and its offset through every later term and is one run of the output;
\* bold runs are disjoint substrings of the text, and a shorter term that
\* occurs only inside a bold longer term is not bolded on its own.
C13_BoldSegmentsStable == [][C13_Step]_vars

\* "Azure Blob Storage" was bolded, "Azure" was tried after it with the
\* limit not reached, and the output holds the one bold run
C13_Witness ==
  /\ bpc = "done"
  /\ Cardinality(BoldIndices(runs)) = 1
  /\ maxBolds = 2
  /\ \E i \in BoldIndices(runs) : runs[i].text = AzureBlobStorage
  /\ \E k \in 1..Len(sortedTerms) : sortedTerms[k] = Azure /\ k < termIdx
  /\ Occurrences(text, Azure) # {}

(***************************************************************************)
(* formatDate (lines 103-118) and the date range of buildExperience        *)
(* (lines 224-227).  A date of the payload is null or a string.            *)
(***************************************************************************)
EN_DASH == "EN_DASH"

\* line 105-108
months ==
  << <<"J", "a", "n">>, <<"F", "e", "b">>, <<"M", "a", "r">>, <<"A", "p", "r">>,
     <<"M", "a", "y">>, <<"J", "u", "n">>, <<"J", "u", "l">>, <<"A", "u", "g">>,
     <<"S", "e", "p">>, <<"O", "c", "t">>, <<"N", "o", "v">>, <<"D", "e", "c">> >>

Present == <<"P", "r", "e", "s", "e", "n", "t">>

\* String.prototype.split(sep) for a one-code-unit separator
RECURSIVE split(_, _)
split(s, sep) ==
  IF \A i \in 1..Len(s) : s[i] # sep THEN <<s>>
  ELSE LET at == CHOOSE i \in 1..Len(s) :
                    s[i] = sep /\ \A j \in 1..(i - 1) : s[j] # sep
       IN <<SubSeq(s, 1, at - 1)>> \o split(SubSeq(s, at + 1, Len(s)), sep)

isDigit(c) == \E i \in 1..10 : Digits[i] = c
digitValue(c) == (CHOOSE i \in 1..10 : Digits[i] = c) - 1

\* the longest prefix of s made of decimal digits
RECURSIVE digitPrefix(_)
digitPrefix(s) ==
  IF s # <<>> /\ isDigit(Head(s)) THEN <<Head(s)>> \o digitPrefix(Tail(s)) ELSE <<>>

RECURSIVE decimalValue(_)
decimalValue(ds) ==
  IF ds = <<>> THEN 0
  ELSE 10 * decimalValue(SubSeq(ds, 1, Len(ds) - 1)) + digitValue(ds[Len(ds)])

NaN == [nan |-> TRUE, val |-> 0]
Number(n) == [nan |-> FALSE, val |-> n]

\* parseInt(s, 10): leading white space skipped, an optional sign, then the
\* longest run of digits; NaN when there is no digit.
parseInt(s) ==
  LET t == trimStart(s)
      signed == t # <<>> /\ Head(t) \in {"+", "-"}
      body == IF signed THEN Tail(t) ELSE t
      ds == digitPrefix(body)
  IN IF ds = <<>> THEN NaN
     ELSE IF signed /\ Head(t) = "-" THEN Number(0 - decimalValue(ds))
     ELSE Number(decimalValue(ds))

\* NaN - 1 is NaN
minusOne(n) == IF n.nan THEN NaN ELSE Number(n.val - 1)

\* line 113: monthIdx >= 0 && monthIdx < 12 (false for NaN)
validMonthIdx(monthIdx) ==
  ~monthIdx.nan /\ monthIdx.val >= 0 /\ monthIdx.val < 12

\* lines 103-118
formatDate(dateStr) ==
  IF dateStr.null \/ dateStr.chars = <<>> THEN Present
  ELSE
    LET parts == split(dateStr.chars, "-")
    IN IF Len(parts) >= 2
       THEN LET year == parts[1]
                monthIdx == minusOne(parseInt(parts[2]))
            IN IF validMonthIdx(monthIdx)
               THEN months[monthIdx.val + 1] \o <<" ">> \o year
               ELSE dateStr.chars
       ELSE dateStr.chars

(***************************************************************************)
(* Dates that are checked: up to MaxParts parts joined by hyphens.         *)
(***************************************************************************)
DateParts ==
  { <<>>,
    <<"2", "0", "2", "2">>,
    <<"a", "b", "c", "d">>,
    <<"0", "0">>,
    <<"0", "3">>,
    <<"1", "2">>,
    <<"1", "3">>,
    <<"3", "x">>,
    <<" ", "7">> }

RECURSIVE DateStrings(_)
DateStrings(n) ==
  IF n = 1 THEN DateParts
  ELSE LET prev == DateStrings(n - 1)
       IN prev \cup {d \o <<"-">> \o p : d \in prev, p \in DateParts}

StartDateInputs == {JsNull} \cup {JsString(d) : d \in DateStrings(MaxParts)}

EndDateInputs ==
  {JsNull, JsString(<<>>), JsString(<<"2", "0", "2", "2", "-", "1", "2">>)}

DateInit ==
  /\ start_date \in StartDateInputs
  /\ end_date \in EndDateInputs
  /\ dpc = "start"
  /\ startFormatted = <<>>
  /\ endFormatted = <<>>
  /\ dateRange = <<>>
  /\ BoldIdle
  /\ CliIdle
  /\ SkillsIdle
  /\ StoreIdle

\* line 225
FormatStart ==
  /\ dpc = "start"
  /\ startFormatted' = formatDate(start_date)
  /\ dpc' = "end"
  /\ UNCHANGED <<start_date, end_date, endFormatted, dateRange, nonDateVars>>

\* line 226
FormatEnd ==
  /\ dpc = "end"
  /\ endFormatted' = formatDate(end_date)
  /\ dpc' = "range"
  /\ UNCHANGED <<start_date, end_date, startFormatted, dateRange, nonDateVars>>

\* line 227
JoinRange ==
  /\ dpc = "range"
  /\ dateRange' = startFormatted \o <<" ", EN_DASH, " ">> \o endFormatted
  /\ dpc' = "done"
  /\ UNCHANGED <<start_date, end_date, startFormatted, endFormatted, nonDateVars>>

DateNext ==
  \/ FormatStart
  \/ FormatEnd
  \/ JoinRange

SpecDate == DateInit /\ [][DateNext]_vars

(***************************************************************************)
(* Properties of formatDate.                                               *)
(***************************************************************************)
\* "YYYY-MM" with month 01..12
IsIsoYearMonth(s) ==
  /\ Len(s) = 7
  /\ \A i \in {1, 2, 3, 4, 6, 7} : isDigit(s[i])
  /\ s[5] = "-"
  /\ 10 * digitValue(s[6]) + digitValue(s[7]) \in 1..12

ExpectedRendering(d) ==
  IF d.null \/ d.chars = <<>> THEN Present
  ELSE IF IsIsoYearMonth(d.chars)
       THEN months[10 * digitValue(d.chars[6]) + digitValue(d.chars[7])]
              \o <<" ">> \o SubSeq(d.chars, 1, 4)
       ELSE d.chars

\* C6: null or empty renders as "Present", "YYYY-MM" with month 01..12 as
\* "<MonthAbbrev> <Year>", every other string unchanged; "2022-03" with a
\* null end date gives the range "Mar 2022 - Present" (with an en dash).
C6_FormatDateContract ==
  /\ dpc \in {"end", "range", "done"} => startFormatted = ExpectedRendering(start_date)
  /\ dpc \in {"range", "done"} => endFormatted = ExpectedRendering(end_date)
  /\ (/\ dpc = "done"
      /\ start_date = JsString(<<"2", "0", "2", "2", "-", "0", "3">>)
      /\ end_date = JsNull)
       => dateRange = <<"M", "a", "r", " ", "2", "0", "2", "2", " ", EN_DASH, " ">> \o Present

(***************************************************************************)
(* The section builders (lines 120-422) as far as the payloads that are    *)
(* checked exercise them: a payload holds personal, summary, projects and  *)
(* is_cv; experience, skills, certifications and education are left out,   *)
(* and a project has a name and no bullets.                                *)
(***************************************************************************)
\* lines 210-219
sectionHeading(title) == [kind |-> "heading", title |-> title]

\* lines 120-208, for a payload with no contact fields and no links
buildHeader(payload) == <<[kind |-> "name"]>>

\* lines 221-268, for an empty job list
buildExperience(jobs) == <<sectionHeading("Professional Experience")>>

\* lines 411-422
buildSummary(summary) ==
  IF summary.null \/ summary.chars = <<>> THEN <<>>
  ELSE <<sectionHeading("Professional Summary"),
         [kind |-> "summary", chars |-> summary.chars]>>

\* a cap that is applied in CV mode as well
buildProjectsAlwaysCapped(projects, isCv) ==
  IF Len(projects) = 0 THEN <<>>
  ELSE LET topProjects == SubSeq(projects, 1, Min(3, Len(projects)))
       IN <<sectionHeading("Projects")>>
            \o [i \in 1..Len(topProjects) |->
                  [kind |-> "project", name |-> topProjects[i].name]]

\* lines 270-318: one title paragraph per project of topProjects
buildProjects(projects, isCv) ==
  IF Len(projects) = 0 THEN <<>>
  ELSE LET topProjects == IF isCv THEN projects
                          ELSE SubSeq(projects, 1, Min(3, Len(projects)))
       IN <<sectionHeading("Projects")>>
            \o [i \in 1..Len(topProjects) |->
                  [kind |-> "project", name |-> topProjects[i].name]]

\* lines 496-520
generateResume(payload) ==
  [kind |-> "resume",
   children |-> buildHeader(payload) \o buildExperience(<<>>)
                  \o buildProjects(payload.projects, FALSE)]

\* lines 527-556
generateCV(payload) ==
  [kind |-> "cv",
   children |-> buildHeader(payload)
                  \o (IF ~payload.summary.null /\ payload.summary.chars # <<>>
                      THEN buildSummary(payload.summary) ELSE <<>>)
                  \o buildExperience(<<>>)
                  \o buildProjects(payload.projects, TRUE)]

\* lines 424-489, for a payload with no date and no content: the name and
\* the one empty body line
generateCoverLetter(payload) ==
  [kind |-> "coverletter", children |-> <<[kind |-> "name"], [kind |-> "line"]>>]

\* lines 577-585
run(type, payload) ==
  IF type = "coverletter" THEN generateCoverLetter(payload)
  ELSE IF type = "cv" THEN generateCV(payload)
  ELSE generateResume(payload)

(***************************************************************************)
(* Command lines and payloads that are checked.                            *)
(***************************************************************************)
ArgTokens == {"--type", "cv", "coverletter", "in.json", "out.docx"}

ArgvInputs == UNION {[1..n -> ArgTokens] : n \in 0..MaxArgs}

ProjectList(n) == [i \in 1..n |-> [name |-> i]]

PayloadInputs ==
  {[kind |-> "null", is_cv |-> FALSE, summary |-> JsNull, projects |-> <<>>]}
    \cup {[kind |-> "object", is_cv |-> c, summary |-> sm, projects |-> ProjectList(n)] :
            c \in BOOLEAN,
            sm \in {JsNull, JsString(<<"S">>)},
            n \in 0..MaxProjects}

(***************************************************************************)
(* The entry point (lines 563-590).                                        *)
(***************************************************************************)
\* args.indexOf("--type")
typeFlagOf(a) ==
  IF \A i \in 1..Len(a) : a[i] # "--type" THEN -1
  ELSE (CHOOSE i \in 1..Len(a) : a[i] = "--type" /\ \A j \in 1..(i - 1) : a[j] # "--type") - 1

\* a[i] for a 0-based index: undefined past the end
argAt(a, i) == IF i + 1 <= Len(a) THEN a[i + 1] ELSE Undefined

\* lines 565-567
docTypeOf(a) == IF typeFlagOf(a) # -1 THEN argAt(a, typeFlagOf(a) + 1) ELSE "resume"
inputFileOf(a) == IF typeFlagOf(a) # -1 THEN argAt(a, typeFlagOf(a) + 2) ELSE argAt(a, 0)
outputFileOf(a) == IF typeFlagOf(a) # -1 THEN argAt(a, typeFlagOf(a) + 3) ELSE argAt(a, 1)

\* !x for an argument: undefined and the empty string are falsy
falsy(x) == x = Undefined \/ x = ""

CliInit ==
  /\ args \in ArgvInputs
  /\ outFile \in {NoFile, OldFile}
  /\ docType = Undefined
  /\ inputFile = Undefined
  /\ outputFile = Undefined
  /\ cpc = "start"
  /\ data = NoData
  /\ doc = NoDoc
  /\ buffer = NoDoc
  /\ err = "none"
  /\ exitCode = 0
  /\ stderr = <<>>
  /\ stdout = <<>>
  /\ BoldIdle
  /\ DateIdle
  /\ SkillsIdle
  /\ StoreIdle

\* lines 563-572: an argument is missing: usage on stderr, process.exit(1)
ArgsUsageExit ==
  /\ cpc = "start"
  /\ (falsy(inputFileOf(args)) \/ falsy(outputFileOf(args)))
  /\ docType' = docTypeOf(args)
  /\ inputFile' = inputFileOf(args)
  /\ outputFile' = outputFileOf(args)
  /\ stderr' = Append(stderr, "Usage")
  /\ exitCode' = 1
  /\ cpc' = "exited"
  /\ UNCHANGED <<args, data, doc, buffer, outFile, err, stdout, nonCliVars>>

\* lines 563-572: both files are named
ArgsAccepted ==
  /\ cpc = "start"
  /\ ~(falsy(inputFileOf(args)) \/ falsy(outputFileOf(args)))
  /\ docType' = docTypeOf(args)
  /\ inputFile' = inputFileOf(args)
  /\ outputFile' = outputFileOf(args)
  /\ cpc' = "read"
  /\ UNCHANGED <<args, data, doc, buffer, outFile, err, exitCode, stderr, stdout,
                 nonCliVars>>

\* an exception thrown at the top level of the script is not caught: Node
\* prints it on stderr and the process ends with status 1
Uncaught(e) ==
  /\ err' = e
  /\ stderr' = Append(stderr, "Uncaught")
  /\ exitCode' = 1
  /\ cpc' = "exited"

\* line 574: fs.readFileSync returns the content of the input file
ReadInputOk ==
  /\ cpc = "read"
  /\ cpc' = "parse"
  /\ UNCHANGED <<args, docType, inputFile, outputFile, data, doc, buffer, outFile,
                 err, exitCode, stderr, stdout, nonCliVars>>

\* line 574: fs.readFileSync throws (the file is missing or unreadable)
ReadInputThrows ==
  /\ cpc = "read"
  /\ Uncaught("ENOENT")
  /\ UNCHANGED <<args, docType, inputFile, outputFile, data, doc, buffer, outFile,
                 stdout, nonCliVars>>

\* line 575: JSON.parse returns the payload
ParseJsonOk ==
  /\ cpc = "parse"
  /\ data' \in PayloadInputs
  /\ cpc' = "run"
  /\ UNCHANGED <<args, docType, inputFile, outputFile, doc, buffer, outFile,
                 err, exitCode, stderr, stdout, nonCliVars>>

\* line 575: JSON.parse throws (the content is not JSON)
ParseJsonThrows ==
  /\ cpc = "parse"
  /\ Uncaught("SyntaxError")
  /\ UNCHANGED <<args, docType, inputFile, outputFile, data, doc, buffer, outFile,
                 stdout, nonCliVars>>

\* lines 577-585 and 424-489, 496-520, 527-556: the document is built
RunBuilds ==
  /\ cpc = "run"
  /\ data.kind = "object"
  /\ doc' = run(docType, data)
  /\ cpc' = "pack"
  /\ UNCHANGED <<args, docType, inputFile, outputFile, data, buffer, outFile,
                 err, exitCode, stderr, stdout, nonCliVars>>

\* lines 425, 500, 531: data.personal of a null payload throws inside the
\* async function: its promise is rejected
RunRejects ==
  /\ cpc = "run"
  /\ data.kind = "null"
  /\ err' = "TypeError"
  /\ cpc' = "rejected"
  /\ UNCHANGED <<args, docType, inputFile, outputFile, data, doc, buffer, outFile,
                 exitCode, stderr, stdout, nonCliVars>>

\* lines 491, 522, 558: Packer.toBuffer resolves
PackOk ==
  /\ cpc = "pack"
  /\ buffer' = doc
  /\ cpc' = "write"
  /\ UNCHANGED <<args, docType, inputFile, outputFile, data, doc, outFile,
                 err, exitCode, stderr, stdout, nonCliVars>>

\* lines 491, 522, 558: Packer.toBuffer rejects
PackRejects ==
  /\ cpc = "pack"
  /\ err' = "PackError"
  /\ cpc' = "rejected"
  /\ UNCHANGED <<args, docType, inputFile, outputFile, data, doc, buffer, outFile,
                 exitCode, stderr, stdout, nonCliVars>>

\* lines 492, 523, 559: fs.writeFileSync opens the output path with flag
\* "w", which creates the file or truncates the one that is there
WriteOpenOk ==
  /\ cpc = "write"
  /\ outFile' = [state |-> "partial", content |-> NoDoc]
  /\ cpc' = "writing"
  /\ UNCHANGED <<args, docType, inputFile, outputFile, data, doc, buffer,
                 err, exitCode, stderr, stdout, nonCliVars>>

\* lines 492, 523, 559: the open fails (no such directory, no permission)
WriteOpenThrows ==
  /\ cpc = "write"
  /\ err' = "EACCES"
  /\ cpc' = "rejected"
  /\ UNCHANGED <<args, docType, inputFile, outputFile, data, doc, buffer, outFile,
                 exitCode, stderr, stdout, nonCliVars>>

\* lines 492, 523, 559: every byte of the buffer is written
WriteDataOk ==
  /\ cpc = "writing"
  /\ outFile' = [state |-> "complete", content |-> buffer]
  /\ cpc' = "log"
  /\ UNCHANGED <<args, docType, inputFile, outputFile, data, doc, buffer,
                 err, exitCode, stderr, stdout, nonCliVars>>

\* lines 492, 523, 559: a write fails part way (disk full, I/O error);
\* writeFileSync closes the file and throws, nothing removes the file
WriteDataThrows ==
  /\ cpc = "writing"
  /\ err' = "ENOSPC"
  /\ cpc' = "rejected"
  /\ UNCHANGED <<args, docType, inputFile, outputFile, data, doc, buffer, outFile,
                 exitCode, stderr, stdout, nonCliVars>>

\* lines 493, 524, 560: the success message; the promise resolves and the
\* process ends with status 0
LogAndExit ==
  /\ cpc = "log"
  /\ stdout' = Append(stdout, "generated")
  /\ exitCode' = 0
  /\ cpc' = "exited"
  /\ UNCHANGED <<args, docType, inputFile, outputFile, data, doc, buffer, outFile,
                 err, stderr, nonCliVars>>

\* a handler that reports the error and lets the process end normally
RunCatchNoExit ==
  /\ cpc = "rejected"
  /\ stderr' = Append(stderr, "Error generating document:")
  /\ exitCode' = 0
  /\ cpc' = "exited"
  /\ UNCHANGED <<args, docType, inputFile, outputFile, data, doc, buffer, outFile,
                 err, stdout, nonCliVars>>

\* lines 587-590: run().catch: the error on stderr, process.exit(1)
RunCatch ==
  /\ cpc = "rejected"
  /\ stderr' = Append(stderr, "Error generating document:")
  /\ exitCode' = 1
  /\ cpc' = "exited"
  /\ UNCHANGED <<args, docType, inputFile, outputFile, data, doc, buffer, outFile,
                 err, stdout, nonCliVars>>

CliNext ==
  \/ ArgsUsageExit
  \/ ArgsAccepted
  \/ ReadInputOk
  \/ ReadInputThrows
  \/ ParseJsonOk
  \/ ParseJsonThrows
  \/ RunBuilds
  \/ RunRejects
  \/ PackOk
  \/ PackRejects
  \/ WriteOpenOk
  \/ WriteOpenThrows
  \/ WriteDataOk
  \/ WriteDataThrows
  \/ LogAndExit
  \/ RunCatch

SpecCli == CliInit /\ [][CliNext]_vars

(***************************************************************************)
(* Properties of a render.                                                 *)
(***************************************************************************)
\* the names of the projects a document shows, in the order of the document
RECURSIVE RenderedProjects(_)
RenderedProjects(children) ==
  IF children = <<>> THEN <<>>
  ELSE (IF Head(children).kind = "project" THEN <<Head(children).name>> ELSE <<>>)
         \o RenderedProjects(Tail(children))

HasSummarySection(children) ==
  \E i \in 1..Len(children) : children[i].kind = "summary"

PayloadProjectNames == [i \in 1..Len(data.projects) |-> data.projects[i].name]

SummaryPresent == ~data.summary.null /\ data.summary.chars # <<>>

\* C7: resume mode (isCv = false, generateResume) shows exactly the first
\* min(3, n) projects of the payload in payload order, CV mode (isCv = true,
\* generateCV) shows all n in payload order.
C7_ProjectCap ==
  /\ doc.kind = "resume" =>
       RenderedProjects(doc.children)
         = SubSeq(PayloadProjectNames, 1, Min(3, Len(data.projects)))
  /\ doc.kind = "cv" => RenderedProjects(doc.children) = PayloadProjectNames

\* five projects in the payload, three in the resume
C7_Witness ==
  /\ doc.kind = "resume"
  /\ Len(data.projects) = 5
  /\ Len(RenderedProjects(doc.children)) = 3

\* C8: the payload field is_cv decides the content: with is_cv = true all
\* projects and the summary (when present) are shown, with is_cv = false at
\* most 3 projects and no summary, under every document type that renders
\* a resume/CV payload.
C8_IsCvDecidesContent ==
  doc.kind \in {"resume", "cv"} =>
    /\ data.is_cv =>
         /\ RenderedProjects(doc.children) = PayloadProjectNames
         /\ SummaryPresent => HasSummarySection(doc.children)
    /\ ~data.is_cv =>
         /\ Len(RenderedProjects(doc.children)) <= 3
         /\ ~HasSummarySection(doc.children)

\* C9: after a run that failed, the output path holds no new file or a
\* whole document.
C9_NoPartialFileOnFailure ==
  (cpc = "exited" /\ exitCode # 0) => outFile.state # "partial"

\* fewer than two arguments are left for the input and the output once the
\* first "--type" and its value are taken out
ArgsIncomplete(a) ==
  IF typeFlagOf(a) = -1 THEN Len(a) < 2 ELSE Len(a) < 4

\* C10: a run with incomplete arguments, an unreadable input, an input that
\* is not JSON or an output that cannot be written ends with a non-zero
\* status and a message on stderr; a run ends with status 0 only with the
\* requested document written whole at the output path.
C10_ExitStatus ==
  cpc = "exited" =>
    /\ (ArgsIncomplete(args) \/ err \in {"ENOENT", "SyntaxError", "EACCES", "ENOSPC"})
         => (exitCode # 0 /\ stderr # <<>>)
    /\ exitCode = 0 =>
         /\ outFile.state = "complete"
         /\ outFile.content = doc
         /\ doc.kind # "none"
         /\ docType = "cv" => doc.kind = "cv"
         /\ docType = "coverletter" => doc.kind = "coverletter"
         /\ typeFlagOf(args) = -1 => doc.kind = "resume"

\* the output could not be written and the run ended with status 1
C10_Witness ==
  /\ cpc = "exited"
  /\ err = "ENOSPC"
  /\ exitCode = 1
  /\ stderr = <<"Error generating document:">>

(***************************************************************************)
(* buildSkills (lines 320-345).  byCategory is a plain JavaScript object:  *)
(* its own keys are strings, Object.entries lists the keys that are array  *)
(* indices first, in ascending numeric order, and then the other keys in   *)
(* the order of their creation; a key it does not own is looked up on      *)
(* Object.prototype.                                                       *)
(***************************************************************************)
Other == <<"O", "t", "h", "e", "r">>

\* the largest array index, 2^32 - 2, in decimal digits
MaxArrayIndex == <<"4", "2", "9", "4", "9", "6", "7", "2", "9", "4">>

\* a <= b for two digit strings of one length
RECURSIVE digitsLeq(_, _)
digitsLeq(a, b) ==
  IF a = <<>> THEN TRUE
  ELSE IF digitValue(Head(a)) # digitValue(Head(b))
       THEN digitValue(Head(a)) < digitValue(Head(b))
       ELSE digitsLeq(Tail(a), Tail(b))

\* a canonical array index: decimal digits without a leading zero, at most
\* 2^32 - 2
isArrayIndex(key) ==
  /\ key # <<>>
  /\ \A i \in 1..Len(key) : isDigit(key[i])
  /\ (Len(key) = 1 \/ key[1] # "0")
  /\ (Len(key) < Len(MaxArrayIndex)
        \/ (Len(key) = Len(MaxArrayIndex) /\ digitsLeq(key, MaxArrayIndex)))

\* the property names of Object.prototype that the checked inputs use
ObjectPrototypeKeys == { <<"c", "o", "n", "s", "t", "r", "u", "c", "t", "o", "r">> }

hasOwn(obj, key) == \E i \in 1..Len(obj.keys) : obj.keys[i] = key

\* obj[key] is truthy: an own array, or a member of Object.prototype
truthyAt(obj, key) == hasOwn(obj, key) \/ key \in ObjectPrototypeKeys

ownIndex(obj, key) == CHOOSE i \in 1..Len(obj.keys) : obj.keys[i] = key

\* line 328: byCategory[cat] = []
withEmptyArray(obj, key) ==
  IF hasOwn(obj, key)
  THEN [obj EXCEPT !.vals[ownIndex(obj, key)] = <<>>]
  ELSE [keys |-> Append(obj.keys, key), vals |-> Append(obj.vals, <<>>)]

\* line 329: byCategory[cat].push(name)
withPushed(obj, key, name) ==
  [obj EXCEPT !.vals[ownIndex(obj, key)] = Append(@, name)]

\* the array-index keys of a key list in ascending numeric order
RECURSIVE sortedIndexKeys(_)
sortedIndexKeys(keySet) ==
  IF keySet = {} THEN <<>>
  ELSE LET least == CHOOSE k \in keySet :
                       \A o \in keySet : decimalValue(k) <= decimalValue(o)
       IN <<least>> \o sortedIndexKeys(keySet \ {least})

\* OrdinaryOwnPropertyKeys: array indices ascending, then creation order
ownKeys(obj) ==
  sortedIndexKeys({obj.keys[i] : i \in {j \in 1..Len(obj.keys) : isArrayIndex(obj.keys[j])}})
    \o SelectSeq(obj.keys, LAMBDA k : ~isArrayIndex(k))

\* line 332: Object.entries(byCategory)
entries(obj) ==
  LET ks == ownKeys(obj)
  IN [i \in 1..Len(ks) |-> [category |-> ks[i], names |-> obj.vals[ownIndex(obj, ks[i])]]]

\* line 327: skill.category || "Other"
categoryOf(skill) ==
  IF skill.category.null \/ skill.category.chars = <<>> THEN Other
  ELSE skill.category.chars

(***************************************************************************)
(* Skill lists that are checked: up to MaxSkills skills, named by their    *)
(* place in the list.                                                      *)
(***************************************************************************)
CategoryInputs ==
  { JsNull,
    JsString(Other),
    JsString(<<"T", "o", "o", "l", "s">>),
    JsString(<<"1", "0">>),
    JsString(<<"2">>),
    JsString(<<"0", "2">>),
    JsString(<<"c", "o", "n", "s", "t", "r", "u", "c", "t", "o", "r">>) }

SkillInputs ==
  UNION {{[i \in 1..n |-> [name |-> i, category |-> f[i]]] : f \in [1..n -> CategoryInputs]} :
           n \in 0..MaxSkills}

SkillsInit ==
  /\ skills \in SkillInputs
  /\ spc = "call"
  /\ skillIdx = 0
  /\ byCategory = EmptyObject
  /\ skillLines = <<>>
  /\ BoldIdle
  /\ DateIdle
  /\ CliIdle
  /\ StoreIdle

\* line 321: no skills, no section
SkillsEmpty ==
  /\ spc = "call"
  /\ Len(skills) = 0
  /\ spc' = "done"
  /\ UNCHANGED <<skills, skillIdx, byCategory, skillLines, nonSkillVars>>

\* lines 323-325
SkillsBegin ==
  /\ spc = "call"
  /\ Len(skills) > 0
  /\ byCategory' = EmptyObject
  /\ skillIdx' = 1
  /\ spc' = "group"
  /\ UNCHANGED <<skills, skillLines, nonSkillVars>>

\* lines 326-330: one skill is put under its category
GroupSkill ==
  /\ spc = "group"
  /\ skillIdx <= Len(skills)
  /\ LET cat == categoryOf(skills[skillIdx])
         made == IF truthyAt(byCategory, cat) THEN byCategory
                 ELSE withEmptyArray(byCategory, cat)
     IN /\ hasOwn(made, cat)
        /\ byCategory' = withPushed(made, cat, skills[skillIdx].name)
  /\ skillIdx' = skillIdx + 1
  /\ UNCHANGED <<skills, spc, skillLines, nonSkillVars>>

\* lines 328-329: the category names a member of Object.prototype, which is
\* truthy and has no push: TypeError
GroupSkillThrows ==
  /\ spc = "group"
  /\ skillIdx <= Len(skills)
  /\ LET cat == categoryOf(skills[skillIdx])
     IN truthyAt(byCategory, cat) /\ ~hasOwn(byCategory, cat)
  /\ spc' = "thrown"
  /\ UNCHANGED <<skills, skillIdx, byCategory, skillLines, nonSkillVars>>

\* lines 332-344: one line per entry of byCategory
EmitSkillLines ==
  /\ spc = "group"
  /\ skillIdx > Len(skills)
  /\ skillLines' = entries(byCategory)
  /\ spc' = "done"
  /\ UNCHANGED <<skills, skillIdx, byCategory, nonSkillVars>>

SkillsNext ==
  \/ SkillsEmpty
  \/ SkillsBegin
  \/ GroupSkill
  \/ GroupSkillThrows
  \/ EmitSkillLines

SpecSkills == SkillsInit /\ [][SkillsNext]_vars

(***************************************************************************)
(* Properties of buildSkills.                                              *)
(***************************************************************************)
\* the distinct categories of a skill list in the order they are first seen
RECURSIVE FirstSeen(_)
FirstSeen(sk) ==
  IF sk = <<>> THEN <<>>
  ELSE LET before == FirstSeen(SubSeq(sk, 1, Len(sk) - 1))
           cat == categoryOf(sk[Len(sk)])
       IN IF \E i \in 1..Len(before) : before[i] = cat THEN before
          ELSE Append(before, cat)

\* the names of the skills of a category, in input order
NamesUnder(sk, cat) ==
  LET of == SelectSeq(sk, LAMBDA x : categoryOf(x) = cat)
  IN [i \in 1..Len(of) |-> of[i].name]

ExpectedSkillLines(sk) ==
  LET cats == FirstSeen(sk)
  IN [i \in 1..Len(cats) |-> [category |-> cats[i], names |-> NamesUnder(sk, cats[i])]]

\* C11: one line per distinct category, in the order each category is
\* first seen, for every category string; names in input order, every
\* skill exactly once, a missing category under "Other".
C11_FirstSeenCategoryOrder ==
  spc = "done" => skillLines = ExpectedSkillLines(skills)

\* the same statement for skill lists without a category that is an array
\* index or a member of Object.prototype
C11_OrderForPlainCategories ==
  (/\ spc \in {"done", "thrown"}
   /\ \A i \in 1..Len(skills) :
         /\ ~isArrayIndex(categoryOf(skills[i]))
         /\ categoryOf(skills[i]) \notin ObjectPrototypeKeys)
    => (spc = "done" /\ skillLines = ExpectedSkillLines(skills))

(***************************************************************************)
(* The persisted store: the tables work_experience, projects and bullets   *)
(* of schema.sql (lines 15-45).  A table is the set of its rows; of a      *)
(* parent row only the id matters here.  SQLite enforces the FOREIGN KEY   *)
(* clauses only on a connection that has set PRAGMA foreign_keys = ON,     *)
(* which the schema does not do: both settings are modelled.               *)
(***************************************************************************)
\* the NULL of a nullable INTEGER column; row ids start at 1
SqlNull == 0

RowIds == 1..MaxRowId

\* lines 39-40: both parent columns are nullable INTEGER columns
ParentValues == {SqlNull} \cup RowIds

\* lines 43-44: a non-NULL parent column must name a row of its table
foreignKeysHold(we, pj) ==
  foreign_keys =>
    /\ (we # SqlNull => we \in work_experience)
    /\ (pj # SqlNull => pj \in projects_table)

\* lines 35-45: what the table definition asks of a bullets row.  There is
\* no CHECK constraint over work_experience_id and project_id.
bulletRowAccepted(we, pj) == foreignKeysHold(we, pj)

StoreInit ==
  /\ foreign_keys \in BOOLEAN
  /\ work_experience = {}
  /\ projects_table = {}
  /\ bullets = {}
  /\ sqlite_sequence = [work_experience |-> 0, projects |-> 0, bullets |-> 0]
  /\ BoldIdle
  /\ DateIdle
  /\ CliIdle
  /\ SkillsIdle

\* line 16: INSERT INTO work_experience; AUTOINCREMENT gives a fresh id
InsertWorkExperience ==
  /\ sqlite_sequence.work_experience < MaxRowId
  /\ LET id == sqlite_sequence.work_experience + 1
     IN /\ work_experience' = work_experience \cup {id}
        /\ sqlite_sequence' = [sqlite_sequence EXCEPT !.work_experience = id]
  /\ UNCHANGED <<foreign_keys, projects_table, bullets, nonStoreVars>>

\* line 27: INSERT INTO projects
InsertProject ==
  /\ sqlite_sequence.projects < MaxRowId
  /\ LET id == sqlite_sequence.projects + 1
     IN /\ projects_table' = projects_table \cup {id}
        /\ sqlite_sequence' = [sqlite_sequence EXCEPT !.projects = id]
  /\ UNCHANGED <<foreign_keys, work_experience, bullets, nonStoreVars>>

\* lines 35-45: INSERT INTO bullets with any values of the parent columns
InsertBullet ==
  /\ sqlite_sequence.bullets < MaxRowId
  /\ \E we \in ParentValues, pj \in ParentValues :
        /\ bulletRowAccepted(we, pj)
        /\ LET id == sqlite_sequence.bullets + 1
           IN /\ bullets' = bullets \cup
                   {[id |-> id, work_experience_id |-> we, project_id |-> pj]}
              /\ sqlite_sequence' = [sqlite_sequence EXCEPT !.bullets = id]
  /\ UNCHANGED <<foreign_keys, work_experience, projects_table, nonStoreVars>>

\* lines 35-45: UPDATE bullets SET work_experience_id = ?, project_id = ?
UpdateBullet ==
  /\ \E b \in bullets, we \in ParentValues, pj \in ParentValues :
        /\ bulletRowAccepted(we, pj)
        /\ bullets' = (bullets \ {b}) \cup
             {[id |-> b.id, work_experience_id |-> we, project_id |-> pj]}
  /\ UNCHANGED <<foreign_keys, work_experience, projects_table, sqlite_sequence,
                 nonStoreVars>>

\* DELETE FROM bullets WHERE id = ?
DeleteBullet ==
  /\ \E b \in bullets : bullets' = bullets \ {b}
  /\ UNCHANGED <<foreign_keys, work_experience, projects_table, sqlite_sequence,
                 nonStoreVars>>

\* line 43: DELETE FROM work_experience; ON DELETE CASCADE removes its
\* bullets when foreign keys are enforced
DeleteWorkExperience ==
  /\ \E id \in work_experience :
        /\ work_experience' = work_experience \ {id}
        /\ bullets' = IF foreign_keys
                      THEN {b \in bullets : b.work_experience_id # id}
                      ELSE bullets
  /\ UNCHANGED <<foreign_keys, projects_table, sqlite_sequence, nonStoreVars>>

\* line 44: DELETE FROM projects; ON DELETE CASCADE removes its bullets
\* when foreign keys are enforced
DeleteProject ==
  /\ \E id \in projects_table :
        /\ projects_table' = projects_table \ {id}
        /\ bullets' = IF foreign_keys
                      THEN {b \in bullets : b.project_id # id}
                      ELSE bullets
  /\ UNCHANGED <<foreign_keys, work_experience, sqlite_sequence, nonStoreVars>>

StoreNext ==
  \/ InsertWorkExperience
  \/ InsertProject
  \/ InsertBullet
  \/ UpdateBullet
  \/ DeleteBullet
  \/ DeleteWorkExperience
  \/ DeleteProject

SpecStore == StoreInit /\ [][StoreNext]_vars

(***************************************************************************)
(* Properties of the store.                                                *)
(***************************************************************************)
\* C12: in every state that accepted inserts, updates and deletes reach,
\* each bullets row has exactly one of work_experience_id and project_id
\* non-NULL.
C12_BulletHasOneParent ==
  \A b \in bullets :
     (b.work_experience_id # SqlNull) # (b.project_id # SqlNull)

====
